---- MODULE Spec2Model ----
(***************************************************************************)
(* Model of streamlit_app.py: the PDF extraction pipeline                  *)
(* (extract_tables_from_pdf), the per-file wrapper (process_single_pdf),   *)
(* the batch loop, the spreadsheet encoder's sheet naming                  *)
(* (create_excel_tables) and the archive assembler                         *)
(* (create_combined_zip_archive).                                          *)
(*                                                                         *)
(* Python strings are sequences of one-character strings, so that strip(), *)
(* split('.'), slicing, len() and f-string formatting are computed, not    *)
(* assumed.  None is a one-element sequence holding a token that is no     *)
(* character; an exception message is a one-element sequence holding the   *)
(* message (no operation of the program looks inside a message).           *)
(***************************************************************************)
EXTENDS Integers, Sequences, FiniteSets, TLC

VARIABLES
    pdf_pages,         \* extract_tables_from_pdf: pdf.pages of the opened file
    page_num,          \* extract_tables_from_pdf: pages already visited
    document_content,  \* extract_tables_from_pdf: the list being built
    table_content,     \* create_excel_tables: the table items of the document
    item_idx,          \* create_excel_tables: items already written
    sheets,            \* create_excel_tables: writer.sheets, in creation order
    uploaded_files,    \* the batch: st.file_uploader's list
    file_idx,          \* batch loop: files already processed
    all_results,       \* batch loop: the results list
    temp_pdfs,         \* names of the files present in the temp_pdfs directory
    batch_status,      \* the script run: "running" (batch loop), "complete" (loop
                       \* over), "aborted" (exception out of the loop), "failed"
                       \* (exception out of the download section), "offered"
                       \* (downloads rendered), "skipped" (no successful file),
                       \* "ended" (closing sweep done)
    zip_file           \* the archive of line 293: its status and its entries

vars == <<pdf_pages, page_num, document_content, table_content, item_idx, sheets,
          uploaded_files, file_idx, all_results, temp_pdfs, batch_status, zip_file>>

extractVars == <<pdf_pages, page_num, document_content>>
sheetVars == <<table_content, item_idx, sheets>>
batchVars == <<uploaded_files, file_idx, temp_pdfs, batch_status>>

----------------------------------------------------------------------------
(* Bounds of the model *)

MaxPages == 2
MaxTables == 2
MaxCols == 4
MaxItems == 3
LongDigits == 20
MaxFiles == 3

----------------------------------------------------------------------------
(* Python values and string operations *)

None == <<"None">>

\* the characters str.strip() removes (those for which str.isspace() holds); a
\* character TLA+ cannot write stands as its Python escape
Whitespace ==
    {" ", "\t", "\n", "\r", "\f",
     "\\x0b", "\\x1c", "\\x1d", "\\x1e", "\\x1f", "\\x85", "\\xa0",
     "\\u1680", "\\u2000", "\\u2001", "\\u2002", "\\u2003", "\\u2004",
     "\\u2005", "\\u2006", "\\u2007", "\\u2008", "\\u2009", "\\u200a",
     "\\u2028", "\\u2029", "\\u202f", "\\u205f", "\\u3000"}

Digit == <<"0", "1", "2", "3", "4", "5", "6", "7", "8", "9">>

\* str(n) for a non-negative int
RECURSIVE Str(_)
Str(n) == IF n < 10 THEN <<Digit[n + 1]>> ELSE Str(n \div 10) \o <<Digit[(n % 10) + 1]>>

\* str(n) for an int beyond 32 bits, held as its decimal digits (most significant first)
BigStr(ds) == [k \in 1..Len(ds) |-> Digit[ds[k] + 1]]

\* s[:k] for k >= 0, and Python's meaning of a negative k
Prefix(s, k) ==
    LET e == IF k >= 0 THEN k ELSE Len(s) + k
        m == IF e < 0 THEN 0 ELSE IF e > Len(s) THEN Len(s) ELSE e
    IN  SubSeq(s, 1, m)

Min(a, b) == IF a <= b THEN a ELSE b

RECURSIVE LStrip(_)
LStrip(s) == IF s # <<>> /\ Head(s) \in Whitespace THEN LStrip(Tail(s)) ELSE s

RECURSIVE RStrip(_)
RStrip(s) ==
    IF s # <<>> /\ s[Len(s)] \in Whitespace THEN RStrip(SubSeq(s, 1, Len(s) - 1)) ELSE s

\* s.strip()
Strip(s) == RStrip(LStrip(s))

\* s.split('.')[0]
RECURSIVE SplitDotFirst(_)
SplitDotFirst(s) ==
    IF s = <<>> \/ Head(s) = "." THEN <<>> ELSE <<Head(s)>> \o SplitDotFirst(Tail(s))

\* the sequences over S of length 0..n
SeqsUpTo(S, n) == UNION {[1..k -> S] : k \in 0..n}

Distinct(s) == \A a, b \in 1..Len(s) : a # b => s[a] # s[b]

----------------------------------------------------------------------------
(* extract_tables_from_pdf *)

ColumnPrefix == <<"C", "o", "l", "u", "m", "n", "_">>

\* f"Column_{i}" (i is 0-based)
ColumnName(i) == ColumnPrefix \o Str(i)

\* pd.isna(df.iloc[0]).all(): cells are str or None
AllNa(row) == \A k \in 1..Len(row) : row[k] = None

\* line 33: the first row is taken as the header row
IsHeaderRow(row) == ~AllNa(row) /\ ~(\A k \in 1..Len(row) : row[k] = None)

\* lines 34-35 and 38: the candidate names
Headers(row) ==
    IF IsHeaderRow(row)
    THEN [k \in 1..Len(row) |-> IF row[k] # None THEN Strip(row[k]) ELSE ColumnName(k - 1)]
    ELSE [k \in 1..Len(row) |-> ColumnName(k - 1)]

\* lines 40-49: header_counts[h] after the names hs have been scanned
\* (-1 stands for "h not in header_counts")
RECURSIVE HeaderCount(_, _)
HeaderCount(hs, h) ==
    IF hs = <<>> THEN -1
    ELSE LET before == HeaderCount(SubSeq(hs, 1, Len(hs) - 1), h)
         IN  IF hs[Len(hs)] = h THEN before + 1 ELSE before

\* lines 40-49: the uniqueness pass
UniqueHeaders(headers) ==
    [k \in 1..Len(headers) |->
        LET h == headers[k]
            seen == HeaderCount(SubSeq(headers, 1, k - 1), h)
        IN  IF seen >= 0 THEN h \o <<"_">> \o Str(seen + 1) ELSE h]

\* lines 28-51: the DataFrame of a non-empty grid (rows of equal length)
DataFrame(table) ==
    LET row0 == table[1]
    IN  IF Len(row0) = 0
        THEN [columns |-> <<>>, rows |-> table]               \* df.empty
        ELSE [columns |-> UniqueHeaders(Headers(row0)),
              rows |-> IF IsHeaderRow(row0) THEN Tail(table) ELSE table]

\* lines 26-58: the table segments of one page; table_num is enumerate's index
RECURSIVE TableSegments(_, _, _)
TableSegments(tables, table_num, page) ==
    IF tables = <<>> THEN <<>>
    ELSE (IF Head(tables) # <<>>
          THEN <<[type |-> "table", page |-> page, table_number |-> table_num + 1,
                  dataframe |-> DataFrame(Head(tables))]>>
          ELSE <<>>)
         \o TableSegments(Tail(tables), table_num + 1, page)

\* a variant of TextSegments that stores the trimmed text
TextSegments_Trimmed(raw_text, page) ==
    LET text == IF raw_text = None THEN <<>> ELSE raw_text
    IN  IF Strip(text) # <<>>
        THEN <<[type |-> "text", content |-> Strip(text), page |-> page]>>
        ELSE <<>>

\* lines 17-23: the text segment of one page
TextSegments(raw_text, page) ==
    LET text == IF raw_text = None THEN <<>> ELSE raw_text
    IN  IF Strip(text) # <<>>
        THEN <<[type |-> "text", content |-> text, page |-> page]>>
        ELSE <<>>

\* lines 16-58: one iteration of the page loop (index is enumerate's index)
PageContent(page, index) ==
    TextSegments(page.text, index + 1) \o TableSegments(page.tables, 0, index + 1)

\* lines 12-60: the whole function on the pages of an opened pdf
RECURSIVE ExtractFrom(_, _)
ExtractFrom(pages, index) ==
    IF index >= Len(pages) THEN <<>>
    ELSE PageContent(pages[index + 1], index) \o ExtractFrom(pages, index + 1)

extract_tables_from_pdf(pages) == ExtractFrom(pages, 0)

----------------------------------------------------------------------------
(* Inputs of the extraction: what pdfplumber returns for a page *)

EmptyGrid == <<>>

\* a grid with a header row and one data row
SmallGrid == <<<<<<"H">>>>, <<<<"x">>>>>>

\* page.extract_text(): None, empty, whitespace only, text with surrounding
\* whitespace
PageTexts == {None, <<>>, <<"\r", "\n">>, <<"\f", "a", " ">>}

PageGrids == {EmptyGrid, SmallGrid}

Pages == [text : PageTexts, tables : SeqsUpTo(PageGrids, MaxTables)]

\* cells of a first row: None, empty, plain, already suffixed, padded
HeaderCells == {None, <<>>, <<"A">>, <<"A", "_", "1">>, <<" ", "A", "\r">>, <<"B">>}

DataCell == <<"x">>

\* the grids with first row row0 and zero or one data row
GridsWith(row0) == {<<row0>>, <<row0, [k \in 1..Len(row0) |-> DataCell]>>}

HeaderGrids == UNION {GridsWith(row0) : row0 \in SeqsUpTo(HeaderCells, MaxCols)}

----------------------------------------------------------------------------
(* State of the operations that are not running *)

ExtractIdle == pdf_pages = <<>> /\ page_num = 0 /\ document_content = <<>>
SheetsIdle == table_content = <<>> /\ item_idx = 0 /\ sheets = <<>>
BatchIdle ==
    /\ uploaded_files = <<>> /\ file_idx = 0 /\ temp_pdfs = {}
    /\ batch_status = "ended"
NotBuilt == [status |-> "not_built", entries |-> <<>>]
ArchiveIdle == all_results = <<>> /\ zip_file = NotBuilt

----------------------------------------------------------------------------
(* extract_tables_from_pdf as a process: one step per page of the loop *)

ExtractInit ==
    /\ pdf_pages \in SeqsUpTo(Pages, MaxPages)
    /\ page_num = 0
    /\ document_content = <<>>
    /\ SheetsIdle /\ BatchIdle /\ ArchiveIdle

\* a one-page pdf holding one table, over every first row
HeadersInit ==
    /\ pdf_pages \in {<<[text |-> None, tables |-> <<g>>]>> : g \in HeaderGrids}
    /\ page_num = 0
    /\ document_content = <<>>
    /\ SheetsIdle /\ BatchIdle /\ ArchiveIdle

ExtractPage ==
    /\ page_num < Len(pdf_pages)
    /\ document_content' = document_content \o PageContent(pdf_pages[page_num + 1], page_num)
    /\ page_num' = page_num + 1
    /\ UNCHANGED <<pdf_pages, sheetVars, batchVars, all_results, zip_file>>

NextExtract == ExtractPage

SpecExtract == ExtractInit /\ [][NextExtract]_vars

SpecHeaders == HeadersInit /\ [][NextExtract]_vars

----------------------------------------------------------------------------
(* Claims about extract_tables_from_pdf *)

\* the segments emitted for page p (1-based), in emission order
SegmentsOfPage(p) == SelectSeq(document_content, LAMBDA seg : seg.page = p)

TablesOfPage(p) == SelectSeq(document_content, LAMBDA seg : seg.page = p /\ seg.type = "table")

TextsOfPage(p) == SelectSeq(document_content, LAMBDA seg : seg.page = p /\ seg.type = "text")

NonEmptyGrids(p) == SelectSeq(pdf_pages[p].tables, LAMBDA g : g # <<>>)

RawText(p) == IF pdf_pages[p].text = None THEN <<>> ELSE pdf_pages[p].text

IsBlank(s) == \A k \in 1..Len(s) : s[k] \in Whitespace

\* the one table of a pdf drawn by HeadersInit, once its page has been visited
TheGrid == pdf_pages[1].tables[1]
TheFrame == document_content[1].dataframe

\* C2: the column names of every emitted table are pairwise distinct, whatever the
\* first row (repeated cells, cells already of the form name_k), and
\* [A, A, B, A] becomes [A, A_1, B, A_2].
C2_ColumnsDistinct ==
    \A k \in 1..Len(document_content) :
        document_content[k].type = "table" =>
            /\ Distinct(document_content[k].dataframe.columns)
            /\ (pdf_pages[1].tables[1][1] = << <<"A">>, <<"A">>, <<"B">>, <<"A">> >>
                  => document_content[k].dataframe.columns =
                        << <<"A">>, <<"A", "_", "1">>, <<"B">>, <<"A", "_", "2">> >>)

\* C3: on every visited page the table_number values of the emitted table segments
\* are exactly 1..k in emission order, k the number of non-empty grids of the page.
C3_DenseTableNumbers ==
    \A p \in 1..page_num :
        /\ Len(TablesOfPage(p)) = Len(NonEmptyGrids(p))
        /\ \A k \in 1..Len(TablesOfPage(p)) : TablesOfPage(p)[k].table_number = k

\* C4: a first row made only of None or empty-string cells gives the names
\* Column_0..Column_{n-1} and keeps every row of the grid; a first row with a
\* non-empty cell is removed from the data rows and gives n names.
C4_HeaderlessOrHeader ==
    page_num = 1 =>
        LET row0 == TheGrid[1]
            n == Len(row0)
        IN  IF \A k \in 1..n : row0[k] = None \/ row0[k] = <<>>
            THEN /\ TheFrame.columns = [k \in 1..n |-> ColumnName(k - 1)]
                 /\ TheFrame.rows = TheGrid
            ELSE /\ TheFrame.rows = Tail(TheGrid)
                 /\ Len(TheFrame.columns) = n

\* C10: the content list is ordered by ascending page number (pages numbered from
\* 1); a page has at most one text segment, present exactly when its text is
\* non-empty after trimming, carrying the untrimmed text and preceding the page's
\* table segments; a page with blank text and tables begins with its first table.
C10_PageOrderAndText ==
    /\ \A a, b \in 1..Len(document_content) :
          a < b => document_content[a].page <= document_content[b].page
    /\ \A k \in 1..Len(document_content) : document_content[k].page \in 1..page_num
    /\ \A p \in 1..page_num :
          /\ Len(TextsOfPage(p)) = (IF IsBlank(RawText(p)) THEN 0 ELSE 1)
          /\ \A k \in 1..Len(TextsOfPage(p)) : TextsOfPage(p)[k].content = pdf_pages[p].text
          /\ \A k \in 1..Len(SegmentsOfPage(p)) :
                SegmentsOfPage(p)[k].type = "text" => k = 1
          /\ (IsBlank(RawText(p)) /\ NonEmptyGrids(p) # <<>>)
                => /\ SegmentsOfPage(p) # <<>>
                   /\ SegmentsOfPage(p)[1].type = "table"
                   /\ SegmentsOfPage(p)[1].dataframe = DataFrame(NonEmptyGrids(p)[1])

\* C10 witness: both pages visited, the first with padded text followed by a
\* table, the second with blank text and a table.
C10_Witness ==
    /\ page_num = 2
    /\ pdf_pages[1].text = <<"\f", "a", " ">> /\ NonEmptyGrids(1) # <<>>
    /\ pdf_pages[2].text = <<"\r", "\n">> /\ NonEmptyGrids(2) # <<>>
    /\ Len(document_content) >= 3

----------------------------------------------------------------------------
(* create_excel_tables: sheet naming.  Python ints are unbounded, so an item  *)
(* holds page and table_number as their decimal digits (most significant     *)
(* first), which lets a name pass 31 characters.                             *)

SheetNameLimit == 31
TruncateCap == 30

\* the decimal digits of a non-negative int
RECURSIVE Digits(_)
Digits(n) == IF n < 10 THEN <<n>> ELSE Digits(n \div 10) \o <<n % 10>>

\* line 117 (with the ints of a segment turned into digits)
TableItems(content) ==
    LET tables == SelectSeq(content, LAMBDA seg : seg.type = "table")
    IN  [k \in 1..Len(tables) |->
            [page |-> Digits(tables[k].page),
             table_number |-> Digits(tables[k].table_number),
             dataframe |-> tables[k].dataframe]]

\* lines 124-126: f"Page{page}_Table{table_number}", cut to 31 characters
SheetName(item) ==
    LET sheet_name == <<"P", "a", "g", "e">> \o BigStr(item.page)
                      \o <<"_", "T", "a", "b", "l", "e">> \o BigStr(item.table_number)
    IN  IF Len(sheet_name) > SheetNameLimit THEN Prefix(sheet_name, SheetNameLimit)
        ELSE sheet_name

\* a variant of SuffixedName that leaves no room for the counter's digits
SuffixedName_NoRoom(base_sheet_name, counter) ==
    LET truncate_length == Min(Len(base_sheet_name) - 1, TruncateCap)
    IN  Prefix(base_sheet_name, truncate_length) \o <<"_">> \o Str(counter)

\* lines 131-132: the next candidate name
SuffixedName(base_sheet_name, counter) ==
    LET truncate_length == Min(Len(base_sheet_name) - Len(Str(counter)) - 1, TruncateCap)
    IN  Prefix(base_sheet_name, truncate_length) \o <<"_">> \o Str(counter)

\* lines 128-133: the while loop; written is the set of names in writer.sheets
RECURSIVE UniqueSheetName(_, _, _, _)
UniqueSheetName(sheet_name, base_sheet_name, counter, written) ==
    IF sheet_name \notin written THEN sheet_name
    ELSE UniqueSheetName(SuffixedName(base_sheet_name, counter), base_sheet_name,
                         counter + 1, written)

\* line 135: df.to_excel(writer, sheet_name=...): a new sheet, or, for a name that
\* writer.sheets already holds, a write into that sheet
ToExcel(written_sheets, sheet_name, df) ==
    IF \E k \in 1..Len(written_sheets) : written_sheets[k].name = sheet_name
    THEN [k \in 1..Len(written_sheets) |->
            IF written_sheets[k].name = sheet_name
            THEN [name |-> sheet_name, dataframe |-> df] ELSE written_sheets[k]]
    ELSE Append(written_sheets, [name |-> sheet_name, dataframe |-> df])

SheetNames(written_sheets) == {written_sheets[k].name : k \in 1..Len(written_sheets)}

\* lines 122-135: one iteration of the loop over table_content
WriteItem(written_sheets, item) ==
    ToExcel(written_sheets,
            UniqueSheetName(SheetName(item), SheetName(item), 1, SheetNames(written_sheets)),
            item.dataframe)

RECURSIVE WriteItems(_, _)
WriteItems(written_sheets, items) ==
    IF items = <<>> THEN written_sheets
    ELSE WriteItems(WriteItem(written_sheets, Head(items)), Tail(items))

\* lines 116-138: the workbook returned, as its sheets in order
create_excel_tables(content) == WriteItems(<<>>, TableItems(content))

\* Inputs: page numbers 1 and 2; table numbers 1 and two numbers of
\* LongDigits + 1 digits that differ in the last digit only
LongNumber(last) == [k \in 1..LongDigits |-> 1] \o <<last>>

SomeFrame == [columns |-> << <<"H">> >>, rows |-> << << <<"x">> >> >>]

SheetItems ==
    [page : {<<1>>, <<2>>},
     table_number : {<<1>>, LongNumber(1), LongNumber(2)},
     dataframe : {SomeFrame}]

SheetsInit ==
    /\ table_content \in SeqsUpTo(SheetItems, MaxItems)
    /\ item_idx = 0
    /\ sheets = <<>>
    /\ ExtractIdle /\ BatchIdle /\ ArchiveIdle

AddSheet ==
    /\ item_idx < Len(table_content)
    /\ sheets' = WriteItem(sheets, table_content[item_idx + 1])
    /\ item_idx' = item_idx + 1
    /\ UNCHANGED <<table_content, extractVars, batchVars, all_results, zip_file>>

NextSheets == AddSheet

SpecSheets == SheetsInit /\ [][NextSheets]_vars

\* the untruncated name of an item
FullSheetName(item) ==
    <<"P", "a", "g", "e">> \o BigStr(item.page)
    \o <<"_", "T", "a", "b", "l", "e">> \o BigStr(item.table_number)

\* C5: every sheet name written is at most 31 characters long, the names are
\* pairwise distinct, and there is exactly one sheet per table segment written.
C5_SheetNames ==
    /\ \A k \in 1..Len(sheets) : Len(sheets[k].name) <= 31
    /\ Distinct([k \in 1..Len(sheets) |-> sheets[k].name])
    /\ Len(sheets) = item_idx

\* C5 witness: all items written, two of them with different names longer than 31
\* characters that share their first 31 characters.
C5_Witness ==
    /\ item_idx = Len(table_content)
    /\ \E a, b \in 1..Len(table_content) :
          /\ a < b
          /\ FullSheetName(table_content[a]) # FullSheetName(table_content[b])
          /\ Len(FullSheetName(table_content[a])) > 31
          /\ Len(FullSheetName(table_content[b])) > 31
          /\ Prefix(FullSheetName(table_content[a]), 31)
               = Prefix(FullSheetName(table_content[b]), 31)
          /\ sheets[a].name # sheets[b].name

----------------------------------------------------------------------------
(* process_single_pdf and the batch loop.                                    *)
(* An uploaded file is its name, what staging it does (stage: "ok",         *)
(* "open_fails": open() raises and creates nothing, "write_fails": the file  *)
(* is created and f.write raises), what pdfplumber does with it (pdf.error:  *)
(* the message of the exception raised while it is read, or None; pdf.pages) *)
(* and whether os.remove of its staged copy raises (remove_fails).           *)
(* temp_dir is fixed, so a staged path is identified by the file's name.     *)

OpenError == <<"[Errno 13] Permission denied">>
WriteError == <<"[Errno 28] No space left on device">>
ParseError == <<"No /Root object! - Is this really a PDF?">>

\* lines 67-68: the directory after the with-open block
StagedDir(uploaded_file, dir) ==
    IF uploaded_file.stage = "open_fails" THEN dir ELSE dir \cup {uploaded_file.name}

\* lines 66-70: the exception raised in the try body (its message), None if none
TryError(uploaded_file) ==
    IF uploaded_file.stage = "open_fails" THEN OpenError
    ELSE IF uploaded_file.stage = "write_fails" THEN WriteError
    ELSE uploaded_file.pdf.error

\* a variant of FinallyRemove that runs only when the try body raised nothing
FinallyRemove_SuccessOnly(uploaded_file, dir) ==
    IF TryError(uploaded_file) # None \/ uploaded_file.remove_fails THEN dir
    ELSE dir \ {uploaded_file.name}

\* lines 94-98: the finally clause; os.remove raises for a missing file and when
\* remove_fails, and either exception is swallowed
FinallyRemove(uploaded_file, dir) ==
    IF uploaded_file.remove_fails THEN dir ELSE dir \ {uploaded_file.name}

CountType(content, type) == Len(SelectSeq(content, LAMBDA item : item.type = type))

\* lines 70-82
SuccessResult(uploaded_file) ==
    LET content == extract_tables_from_pdf(uploaded_file.pdf.pages)
    IN  [filename |-> uploaded_file.name,
         content |-> content,
         text_count |-> CountType(content, "text"),
         table_count |-> CountType(content, "table"),
         success |-> TRUE,
         error |-> None]

\* lines 84-92; e stands for str(e)
FailureResult(uploaded_file, e) ==
    [filename |-> uploaded_file.name,
     content |-> <<>>,
     text_count |-> 0,
     table_count |-> 0,
     success |-> FALSE,
     error |-> e]

\* a variant of process_single_pdf whose except clause misses the extraction's
\* exceptions
process_single_pdf_Uncaught(uploaded_file, dir) ==
    LET e == TryError(uploaded_file)
    IN  [raised |-> uploaded_file.stage = "ok" /\ e # None,
         result |-> IF e = None THEN SuccessResult(uploaded_file)
                    ELSE FailureResult(uploaded_file, e),
         dir |-> FinallyRemove(uploaded_file, StagedDir(uploaded_file, dir))]

\* lines 62-98: raised tells whether an exception leaves the call (the except
\* clause catches every Exception of the body, the finally clause has its own)
process_single_pdf(uploaded_file, dir) ==
    LET e == TryError(uploaded_file)
    IN  [raised |-> FALSE,
         result |-> IF e = None THEN SuccessResult(uploaded_file)
                    ELSE FailureResult(uploaded_file, e),
         dir |-> FinallyRemove(uploaded_file, StagedDir(uploaded_file, dir))]

\* Inputs of the batch
NameA == <<"a", ".", "p", "d", "f">>
NameAB == <<"a", ".", "b", ".", "p", "d", "f">>
NameB == <<"b", ".", "p", "d", "f">>

\* one page: padded text and a table
GoodPdf == [error |-> None,
            pages |-> <<[text |-> <<" ", "a", " ">>, tables |-> <<SmallGrid>>]>>]

\* one page: blank text and an empty grid, so no content
BlankPdf == [error |-> None, pages |-> <<[text |-> <<"\r", "\n">>, tables |-> <<EmptyGrid>>]>>]

\* pdfplumber raises while the file is opened or read
CorruptPdf == [error |-> ParseError, pages |-> <<>>]

BatchNames == {NameA, NameB}

BatchFiles ==
    [name : BatchNames, stage : {"open_fails"}, pdf : {GoodPdf}, remove_fails : {FALSE}]
    \cup [name : BatchNames, stage : {"write_fails"}, pdf : {GoodPdf}, remove_fails : BOOLEAN]
    \cup [name : BatchNames, stage : {"ok"}, pdf : {GoodPdf, BlankPdf, CorruptPdf},
           remove_fails : BOOLEAN]

\* lines 191-204: some of the files uploaded, the button pressed, temp_pdfs
\* created
BatchInit(files) ==
    /\ uploaded_files \in SeqsUpTo(files, MaxFiles) \ {<<>>}
    /\ file_idx = 0
    /\ all_results = <<>>
    /\ temp_pdfs = {}
    /\ batch_status = "running"
    /\ zip_file = NotBuilt
    /\ ExtractIdle /\ SheetsIdle

Init == BatchInit(BatchFiles)

\* lines 207-216: one iteration of the batch loop; an exception leaving
\* process_single_pdf would end the script run
ProcessFile ==
    /\ batch_status = "running"
    /\ file_idx < Len(uploaded_files)
    /\ LET out == process_single_pdf(uploaded_files[file_idx + 1], temp_pdfs)
       IN  /\ temp_pdfs' = out.dir
           /\ IF out.raised
              THEN /\ batch_status' = "aborted"
                   /\ UNCHANGED <<file_idx, all_results>>
              ELSE /\ all_results' = Append(all_results, out.result)
                   /\ file_idx' = file_idx + 1
                   /\ batch_status' = IF file_idx + 1 = Len(uploaded_files)
                                      THEN "complete" ELSE "running"
    /\ UNCHANGED <<uploaded_files, zip_file, extractVars, sheetVars>>

----------------------------------------------------------------------------
(* Claims about process_single_pdf and the batch loop *)

\* staging or extraction raises for this file
Raises(f) == f.stage # "ok" \/ f.pdf.error # None

\* the content of a file processed alone, by the extractor on its own pages
ContentAlone(f) == extract_tables_from_pdf(f.pdf.pages)

\* C1: one result per input, in input order; a file whose staging or extraction
\* raised has success = false, a non-null error and empty content; every other
\* file has success = true, error = null and the content it has when processed
\* alone; no exception of one file stops the files after it.
C1_BatchIsolation ==
    /\ Len(all_results) = file_idx
    /\ batch_status # "aborted"
    /\ batch_status = "complete" => file_idx = Len(uploaded_files)
    /\ \A k \in 1..Len(all_results) :
          LET f == uploaded_files[k]
              r == all_results[k]
          IN  /\ r.filename = f.name
              /\ IF Raises(f)
                 THEN r.success = FALSE /\ r.error # None /\ r.content = <<>>
                 ELSE /\ r.success = TRUE /\ r.error = None
                      /\ r.content = ContentAlone(f)
                      /\ r = process_single_pdf(f, {}).result

\* C1 witness: a batch of three is complete, the second file raised during
\* extraction, the first and the third succeeded.
C1_Witness ==
    /\ batch_status = "complete"
    /\ Len(uploaded_files) = 3
    /\ uploaded_files[2].stage = "ok" /\ uploaded_files[2].pdf.error # None
    /\ ~Raises(uploaded_files[1]) /\ ~Raises(uploaded_files[3])
    /\ all_results[1].success /\ ~all_results[2].success /\ all_results[3].success

\* a staged copy of the file was created
Staged(f) == f.stage # "open_fails"

\* C9 as claimed: on every exit path the staged file is removed before the call
\* returns, so no staged file of a source exists once its result is produced, and
\* a failure of the removal changes neither the result nor the later processing.
C9_NoStagedFileLeft ==
    /\ temp_pdfs = {}
    /\ batch_status # "aborted"
    /\ \A k \in 1..Len(all_results) :
          all_results[k] =
              process_single_pdf([uploaded_files[k] EXCEPT !.remove_fails = FALSE], {}).result

\* C9 as amended: the removal is attempted on every exit path, so a staged file
\* is left only by a source whose removal itself failed; the failure is swallowed
\* and changes neither the result nor the processing of the later sources.
C9_StagedFileLeftOnlyByFailedRemoval ==
    /\ \A n \in temp_pdfs :
          \E k \in 1..file_idx :
              /\ uploaded_files[k].name = n
              /\ uploaded_files[k].remove_fails
              /\ Staged(uploaded_files[k])
    /\ file_idx > 0 /\ ~uploaded_files[file_idx].remove_fails
          => uploaded_files[file_idx].name \notin temp_pdfs
    /\ batch_status # "aborted"
    /\ Len(all_results) = file_idx
    /\ batch_status = "complete" => file_idx = Len(uploaded_files)
    /\ \A k \in 1..Len(all_results) :
          all_results[k] =
              process_single_pdf([uploaded_files[k] EXCEPT !.remove_fails = FALSE], {}).result

\* C9 witness: three sources processed, one on each exit path: the first failed
\* while writing its staged copy and its removal failed too, which left the file;
\* the second failed during extraction and the third succeeded, and the staged
\* file of each was removed.
C9_Witness ==
    /\ batch_status = "complete"
    /\ Len(uploaded_files) = 3
    /\ uploaded_files[1].stage = "write_fails" /\ uploaded_files[1].remove_fails
    /\ uploaded_files[1].name \in temp_pdfs
    /\ uploaded_files[2].stage = "ok" /\ uploaded_files[2].pdf.error # None
    /\ ~uploaded_files[2].remove_fails
    /\ uploaded_files[2].name \notin temp_pdfs
    /\ ~Raises(uploaded_files[3]) /\ ~uploaded_files[3].remove_fails
    /\ all_results[3].success

----------------------------------------------------------------------------
(* The encoders' documents and create_combined_zip_archive.                  *)
(* An archive entry is its name and its data; kind and source (the index of  *)
(* the result it was built from, 0 for the summary) are bookkeeping of the   *)
(* model.  python-docx (lxml) and openpyxl raise on a string holding a       *)
(* control character other than tab, line feed and carriage return.          *)

Nul == "\\x00"

\* the control characters of the model's alphabet that the encoders refuse
IllegalCharacters == {Nul, "\\x0b", "\f", "\\x1c", "\\x1d", "\\x1e", "\\x1f"}

DuplicateWidgetID == <<"DuplicateWidgetID">>

XmlError == <<"All strings must be XML compatible">>
IllegalCharacterError == <<"IllegalCharacterError">>

HasIllegal(s) == s # None /\ \E k \in 1..Len(s) : s[k] \in IllegalCharacters

TextItems(content) == SelectSeq(content, LAMBDA item : item.type = "text")

\* lines 100-114: the exception doc.add_paragraph raises (its message), None if none
WordError(content) ==
    IF \E k \in 1..Len(content) :
          content[k].type = "text" /\ HasIllegal(content[k].content)
    THEN XmlError ELSE None

\* lines 100-114: the document, as its title and its heading/paragraph pairs
create_word_document_text_only(content, filename) ==
    [title |-> <<"P", "D", "F", " ", "T", "e", "x", "t", " ", "C", "o", "n", "t", "e", "n", "t", " ", "-", " ">> \o filename,
     sections |-> [k \in 1..Len(TextItems(content)) |->
                     [heading |-> <<"P", "a", "g", "e", " ">> \o Str(TextItems(content)[k].page),
                      paragraph |-> TextItems(content)[k].content]]]

FrameHasIllegal(df) ==
    \/ \E c \in 1..Len(df.columns) : HasIllegal(df.columns[c])
    \/ \E r \in 1..Len(df.rows) : \E c \in 1..Len(df.rows[r]) : HasIllegal(df.rows[r][c])

\* lines 116-138: the exception df.to_excel raises (its message), None if none
ExcelError(content) ==
    IF \E k \in 1..Len(content) :
          content[k].type = "table" /\ FrameHasIllegal(content[k].dataframe)
    THEN IllegalCharacterError ELSE None

TextSuffix == <<"_", "t", "e", "x", "t", ".", "d", "o", "c", "x">>
TablesSuffix == <<"_", "t", "a", "b", "l", "e", "s", ".", "x", "l", "s", "x">>
SummaryName == <<"p", "r", "o", "c", "e", "s", "s", "i", "n", "g", "_", "s", "u", "m", "m", "a", "r", "y", ".", "d", "o", "c", "x">>

\* line 147
BaseFilename(result) == SplitDotFirst(result.filename)

\* lines 145-156: the loop over the results from index k on; an encoder's
\* exception ends it
RECURSIVE WriteArtifacts(_, _, _)
WriteArtifacts(results, k, entries) ==
    IF k > Len(results) THEN [error |-> None, entries |-> entries]
    ELSE LET result == results[k]
         IN  IF result.success /\ result.content # <<>>
             THEN IF WordError(result.content) # None
                  THEN [error |-> WordError(result.content), entries |-> entries]
                  ELSE LET with_word ==
                               Append(entries,
                                      [name |-> BaseFilename(result) \o TextSuffix,
                                       data |-> create_word_document_text_only(
                                                    result.content, result.filename),
                                       kind |-> "text", source |-> k])
                       IN  IF result.table_count > 0
                           THEN IF ExcelError(result.content) # None
                                THEN [error |-> ExcelError(result.content),
                                      entries |-> with_word]
                                ELSE WriteArtifacts(results, k + 1,
                                         Append(with_word,
                                                [name |-> BaseFilename(result) \o TablesSuffix,
                                                 data |-> create_excel_tables(result.content),
                                                 kind |-> "tables", source |-> k]))
                           ELSE WriteArtifacts(results, k + 1, with_word)
             ELSE WriteArtifacts(results, k + 1, entries)

\* lines 162-170: the summary's section of one result
SummarySection(result) ==
    IF result.success
    THEN [heading |-> result.filename, status |-> "Successfully processed",
          text_sections |-> result.text_count, tables |-> result.table_count]
    ELSE [heading |-> result.filename, status |-> "Processing failed",
          error |-> result.error]

\* a variant of SummaryDoc that lists the successful sources only
SummaryDoc_SuccessOnly(results) ==
    LET ok == SelectSeq(results, LAMBDA result : result.success)
    IN  [k \in 1..Len(ok) |-> SummarySection(ok[k])]

\* lines 158-170
SummaryDoc(results) == [k \in 1..Len(results) |-> SummarySection(results[k])]

\* lines 140-178: an exception of an encoder leaves the function, and no archive
\* is returned
create_combined_zip_archive(results) ==
    LET written == WriteArtifacts(results, 1, <<>>)
    IN  IF written.error # None
        THEN [status |-> "raised", entries |-> <<>>]
        ELSE [status |-> "built",
              entries |-> Append(written.entries,
                                 [name |-> SummaryName, data |-> SummaryDoc(results),
                                  kind |-> "summary", source |-> 0])]

\* Inputs of the archive: the results of a finished batch over these files
TextPdf == [error |-> None, pages |-> <<[text |-> <<"a">>, tables |-> <<>>]>>]
NulTextPdf == [error |-> None, pages |-> <<[text |-> <<"a", Nul>>, tables |-> <<>>]>>]
NulCellPdf == [error |-> None,
               pages |-> <<[text |-> <<"a">>,
                            tables |-> << << << <<"H">> >>, << <<Nul>> >> >> >>]>>]

\* a form feed before the text: strip() takes it for whitespace, the encoder
\* refuses it
FormFeedPdf == [error |-> None, pages |-> <<[text |-> <<"\f", "a">>, tables |-> <<>>]>>]

ArchiveFiles ==
    [name : {NameA, NameAB, NameB}, stage : {"ok"},
     pdf : {GoodPdf, TextPdf, BlankPdf, CorruptPdf, NulTextPdf, NulCellPdf, FormFeedPdf},
     remove_fails : {FALSE}]

\* the same script run over the files of the archive's inputs
ArchiveInit == BatchInit(ArchiveFiles)

\* lines 270-276 and 281-287: the widget keys of the two download buttons
WordKey(result) == <<"w", "o", "r", "d", "_">> \o BaseFilename(result)
ExcelKey(result) == <<"e", "x", "c", "e", "l", "_">> \o BaseFilename(result)

\* lines 262-287: the exception that leaves the individual downloads (its
\* message), None if none; the results from index k on, keys being the widget
\* keys already used in this script run.  An encoder raises on a string it
\* refuses, st.download_button on a key used before.
RECURSIVE DownloadError(_, _, _)
DownloadError(results, k, keys) ==
    IF k > Len(results) THEN None
    ELSE LET result == results[k]
         IN  IF result.success /\ result.content # <<>>
             THEN IF WordError(result.content) # None THEN WordError(result.content)
                  ELSE IF WordKey(result) \in keys THEN DuplicateWidgetID
                  ELSE IF result.table_count > 0
                       THEN IF ExcelError(result.content) # None
                            THEN ExcelError(result.content)
                            ELSE IF ExcelKey(result) \in keys THEN DuplicateWidgetID
                            ELSE DownloadError(results, k + 1,
                                     keys \cup {WordKey(result), ExcelKey(result)})
                       ELSE DownloadError(results, k + 1, keys \cup {WordKey(result)})
             ELSE DownloadError(results, k + 1, keys)

\* line 220
successful_files == SelectSeq(all_results, LAMBDA result : result.success)

\* lines 257-300: the download section when a file succeeded: the individual
\* downloads, then the archive; an exception of an encoder or of a download
\* button ends the script run
OfferDownloads ==
    /\ batch_status = "complete"
    /\ successful_files # <<>>
    /\ IF DownloadError(all_results, 1, {}) # None
       THEN /\ batch_status' = "failed"
            /\ UNCHANGED zip_file
       ELSE /\ zip_file' = create_combined_zip_archive(all_results)
            /\ batch_status' = IF zip_file'.status = "raised" THEN "failed" ELSE "offered"
    /\ UNCHANGED <<uploaded_files, file_idx, all_results, temp_pdfs, extractVars, sheetVars>>

\* line 257: no file succeeded, nothing is offered
NoDownloads ==
    /\ batch_status = "complete"
    /\ successful_files = <<>>
    /\ batch_status' = "skipped"
    /\ UNCHANGED <<uploaded_files, file_idx, all_results, temp_pdfs, zip_file,
                   extractVars, sheetVars>>

\* lines 305-310: the closing sweep of temp_pdfs; the first os.remove that raises
\* ends it (the exception is swallowed), so any part of the files may be removed
Sweep ==
    /\ batch_status \in {"offered", "skipped"}
    /\ \E removed \in SUBSET temp_pdfs : temp_pdfs' = temp_pdfs \ removed
    /\ batch_status' = "ended"
    /\ UNCHANGED <<uploaded_files, file_idx, all_results, zip_file, extractVars, sheetVars>>

Next ==
    \/ ProcessFile
    \/ OfferDownloads
    \/ NoDownloads
    \/ Sweep

Spec == Init /\ [][Next]_vars

SpecArchive == ArchiveInit /\ [][Next]_vars

----------------------------------------------------------------------------
(* Claims about create_combined_zip_archive *)

Failed == {k \in 1..Len(all_results) : ~all_results[k].success}
Succeeded == {k \in 1..Len(all_results) : all_results[k].success}

EntriesOf(k) == SelectSeq(zip_file.entries, LAMBDA entry : entry.source = k)

SummaryEntries == SelectSeq(zip_file.entries, LAMBDA entry : entry.name = SummaryName)

\* the summary lists every source, in order, each with its status
SummaryIsCorrect ==
    /\ Len(SummaryEntries) = 1
    /\ LET summary == SummaryEntries[1].data
       IN  /\ Len(summary) = Len(all_results)
           /\ \A k \in 1..Len(all_results) :
                 /\ summary[k].heading = all_results[k].filename
                 /\ IF all_results[k].success
                    THEN /\ summary[k].status = "Successfully processed"
                         /\ summary[k].text_sections =
                               CountType(all_results[k].content, "text")
                         /\ summary[k].tables = CountType(all_results[k].content, "table")
                    ELSE /\ summary[k].status = "Processing failed"
                         /\ summary[k].error = all_results[k].error

\* the text artifact of source k: named after it, holding its text segments
IsTextArtifact(entry, k) ==
    /\ entry.kind = "text"
    /\ entry.name = SplitDotFirst(uploaded_files[k].name) \o TextSuffix
    /\ Len(entry.data.sections) = CountType(all_results[k].content, "text")

IsTablesArtifact(entry, k) ==
    /\ entry.kind = "tables"
    /\ entry.name = SplitDotFirst(uploaded_files[k].name) \o TablesSuffix
    /\ Len(entry.data) = CountType(all_results[k].content, "table")

\* C6 as claimed: with N successful sources and one failed source, the archive
\* holds artifacts for each successful source, none for the failed one, and
\* exactly one summary entry listing all N+1 sources with their status.
C6_ArtifactsForEverySuccess ==
    (zip_file.status = "built" /\ Cardinality(Failed) = 1) =>
        /\ \A k \in Succeeded : EntriesOf(k) # <<>> /\ IsTextArtifact(EntriesOf(k)[1], k)
        /\ \A k \in Failed : EntriesOf(k) = <<>>
        /\ SummaryIsCorrect

\* C6 as amended: the archive holds a text artifact for each successful source
\* whose content is not empty, followed by its tables artifact exactly when it
\* has tables; it holds no artifact for the failed source nor for a successful
\* source with empty content; and exactly one summary entry lists all N+1
\* sources with their status.
C6_ArtifactsForEverySuccessWithContent ==
    (zip_file.status = "built" /\ Cardinality(Failed) = 1) =>
        /\ \A k \in Succeeded :
              IF all_results[k].content = <<>> THEN EntriesOf(k) = <<>>
              ELSE /\ Len(EntriesOf(k)) =
                         (IF CountType(all_results[k].content, "table") > 0 THEN 2 ELSE 1)
                   /\ IsTextArtifact(EntriesOf(k)[1], k)
                   /\ Len(EntriesOf(k)) = 2 => IsTablesArtifact(EntriesOf(k)[2], k)
        /\ \A k \in Failed : EntriesOf(k) = <<>>
        /\ SummaryIsCorrect

\* C6 witness: an archive built from a source with text and a table, a source that
\* succeeded with empty content, and a failed source.
C6_Witness ==
    /\ zip_file.status = "built"
    /\ Cardinality(Failed) = 1
    /\ \E a, b \in Succeeded :
          /\ all_results[a].table_count > 0 /\ all_results[a].text_count > 0
          /\ Len(EntriesOf(a)) = 2
          /\ all_results[b].content = <<>>
          /\ EntriesOf(b) = <<>>

\* C7: for the results of a finished batch whose source names are pairwise
\* distinct, the entry names of the archive create_combined_zip_archive returns
\* are pairwise distinct (and none is the summary's).
C7_EntryNamesDistinct ==
    (batch_status = "complete"
       /\ Distinct([k \in 1..Len(all_results) |-> all_results[k].filename]))
      => LET archive == create_combined_zip_archive(all_results)
         IN  archive.status = "built"
                => Distinct([k \in 1..Len(archive.entries) |-> archive.entries[k].name])

\* the encoders raise nothing for the content of result k
Encodable(k) ==
    /\ WordError(all_results[k].content) = None
    /\ ExcelError(all_results[k].content) = None

\* C8: an exception raised by an encoder for one source's artifact does not leave
\* create_combined_zip_archive: for the results of a finished batch with a
\* successful file, the archive is returned with the artifacts of the sources
\* that can be encoded and the summary entry.
C8_EncodingFailureIsolated ==
    (batch_status = "complete" /\ Succeeded # {}) =>
        LET archive == create_combined_zip_archive(all_results)
        IN  /\ archive.status = "built"
            /\ \E e \in 1..Len(archive.entries) : archive.entries[e].name = SummaryName
            /\ \A k \in Succeeded :
                  (all_results[k].content # <<>> /\ Encodable(k))
                     => \E e \in 1..Len(archive.entries) : archive.entries[e].source = k

====
